---- MODULE Spec2Model ----
(***************************************************************************)
(* Session-scoped tool-call logging and response dispatch of the chat      *)
(* endpoint (src/main.py): the mutex-guarded TOOL_LOGS store, the          *)
(* capture_tool_calls hook, run_agent and chat.                            *)
(*                                                                         *)
(* Request-handling threads run chat() concurrently on the one shared      *)
(* AGENT object.  Every step that reads or writes shared state (the        *)
(* agent's context attribute, TOOL_LOGS under its lock) is one action.     *)
(***************************************************************************)
EXTENDS Integers, Sequences, FiniteSets, TLC

\* ------------------------------------------------------------------ bounds
MaxReqs == 2        \* chat requests served in one behaviour
MaxCalls == 2       \* tool calls the agent makes in one behaviour
MaxOps == 4         \* store operations issued by the store harness

\* ------------------------------------------------------- program constants
PREVIEW_MAX == 800

Threads == {"t1", "t2"}
CANDIDATES == <<"create_response", "get_response", "run", "respond">>
DEFAULT_KEY == "default"
USER_ID == "sky"
GENERIC_ERROR == "Internal error while generating response."

\* ------------------------------------------------------------ Python values
None == [t |-> "none"]
PyS(s) == [t |-> "str", v |-> s]

\* truth value of a Python object: None and the empty string are falsy
Truthy(v) == v.t = "str" /\ v.v # ""

\* a or b
PyOr(a, b) == IF Truthy(a) THEN a ELSE b

\* str(v) of a string value
PyStr(v) == v.v

\* str.strip() on the strings the model uses
Strip(s) ==
    CASE s = " " -> ""
      [] s = " s1 " -> "s1"
      [] s = " e1 " -> "e1"
      [] s = "\ts2\n" -> "s2"
      [] s = " out\n" -> "out"
      [] OTHER -> s

\* A string whose content does not matter is its identity and its length.
Text(id, n) == [text |-> id, len |-> n]

\* s[:n]
Slice(s, n) == [text |-> s.text, len |-> IF s.len <= n THEN s.len ELSE n]

\* repr(result) of a tool result
Repr(r) == Text(r.val, r.reprLen)

\* Texts that rich's markup parser rejects (an unmatched closing tag):
\* console.print raises MarkupError when the printed line holds one.
BadMarkup == {"SELECT '[/a]'", "ValueError('[/b]')", "MarkupError('[/a]')"}
MarkupFails(s) == s \in BadMarkup
MARKUP_ERROR == "MarkupError('[/a]')"

\* ------------------------------------------------------------------- state
VARIABLES
    TOOL_LOGS,          \* session id -> sequence of tool-call records
    context,            \* AGENT.context
    agentMethods,       \* the candidate methods that AGENT has and are callable
    LOG_TOOL_LIVE, LOG_DEBUG, LOG_TOOL_SUMMARY,
    pc,                 \* per thread: position in chat / run_agent / hook
    req,                \* per thread: number of the request being served
    session_id,         \* per thread: chat's session_id
    mi,                 \* per thread: index of run_agent's loop in CANDIDATES
    result,             \* per thread: run_agent's local result
    answer,             \* per thread: run_agent's return value
    err,                \* per thread: the exception in flight
    hook,               \* per thread: frame of capture_tool_calls
    ncalls,             \* history: tool calls made so far, which numbers them
    nreq,               \* requests accepted so far
    response,           \* per thread: the response sent for its last request
    stale,              \* per thread: the session's log when the request began
    overlapped,         \* history: two requests have been in flight together
    envSid,             \* os.getenv("SESSION_ID")
    ops,                \* store harness: operations issued
    lastOp,             \* store harness: the last operation and what it saw
    expect,             \* store harness: per session id, the appends since its reset
    touched,            \* store harness: session ids reset or appended to
    lists,              \* the list objects in memory: object id -> its elements
    refs,               \* TOOL_LOGS as Python holds it: session id -> id of its list
    held,               \* the list a caller of _logs_get was handed
    TOOL_LOGS_LOCK,     \* the thread that holds the lock, or FREE
    sop,                \* per thread: the store operation it is calling, and where it is
    stdout,             \* sys.stdout, one for the whole process
    saved,              \* per thread: the target its redirect_stdout will restore
    trace               \* per thread, history of its run_agent call: resets of the
                        \* log, methods invoked, text accepted, returns

vars == <<TOOL_LOGS, context, agentMethods, LOG_TOOL_LIVE, LOG_DEBUG,
          LOG_TOOL_SUMMARY, pc, req, session_id, mi, result, answer, err,
          hook, ncalls, nreq, response, stale, overlapped, envSid, ops, lastOp, expect, touched,
          lists, refs, held, TOOL_LOGS_LOCK, sop, stdout, saved, trace>>

flags == <<LOG_TOOL_LIVE, LOG_DEBUG, LOG_TOOL_SUMMARY, envSid>>
objects == <<lists, refs, held>>
locking == <<TOOL_LOGS_LOCK, sop>>
store == <<ops, lastOp, expect, touched, overlapped, objects, locking>>
redirect == <<stdout, saved>>
harness == <<store, trace, redirect>>
locals == <<req, session_id, mi, result, answer, err, hook, response, stale>>

\* a run_agent call that has done nothing yet
NoTrace == [resets |-> 0, invoked |-> <<>>, accepted |-> FALSE, returns |-> 0]

\* ------------------------------------------------------- Session Log Store
EmptyLogs == [k \in {} |-> <<>>]

\* TOOL_LOGS[session_id] = []
ResetKeepsLog(logs, sid) ==
    [k \in DOMAIN logs \cup {sid} |-> IF k \in DOMAIN logs THEN logs[k] ELSE <<>>]

ResetDrops(logs, sid) == [k \in DOMAIN logs \ {sid} |-> logs[k]]

_logs_reset(logs, sid) ==
    [k \in DOMAIN logs \cup {sid} |-> IF k = sid THEN <<>> ELSE logs[k]]

\* TOOL_LOGS.setdefault(session_id, []).append(entry)
AppendPrepends(logs, sid, entry) ==
    [k \in DOMAIN logs \cup {sid} |->
        IF k = sid
        THEN (IF sid \in DOMAIN logs THEN <<entry>> \o logs[sid] ELSE <<entry>>)
        ELSE logs[k]]

AppendToEvery(logs, sid, entry) ==
    [k \in DOMAIN logs \cup {sid} |->
        IF k \in DOMAIN logs THEN Append(logs[k], entry) ELSE <<entry>>]

_logs_append(logs, sid, entry) ==
    [k \in DOMAIN logs \cup {sid} |->
        IF k = sid
        THEN (IF sid \in DOMAIN logs THEN Append(logs[sid], entry) ELSE <<entry>>)
        ELSE logs[k]]

\* list(TOOL_LOGS.get(session_id, []))
_logs_get(logs, sid) ==
    IF sid \in DOMAIN logs THEN logs[sid] ELSE <<>>

\* ------------------------------------------------------ choose_session_id
\* uuid.uuid4().hex[:8] for the uuids the model draws
Hex8(hex) ==
    CASE hex = "0a1b2c3d4e5f4a7b8c9d0e1f2a3b4c5d" -> "0a1b2c3d"
      [] hex = "ffffffffffff4fffbfffffffffffffff" -> "ffffffff"
      [] OTHER -> "00000000"

\* f"{agent.user_id}-{uuid.uuid4().hex[:8]}"
Generated(user_id, hex) == user_id \o "-" \o Hex8(hex)

CallerFirst(env, requested, hex) ==
    LET env_sid == Strip(PyOr(env, PyS("")).v)
        req_sid == Strip(PyOr(requested, PyS("")).v)
    IN  IF req_sid # "" THEN req_sid
        ELSE IF env_sid # "" THEN env_sid
        ELSE Generated(USER_ID, hex)

choose_session_id(env, requested, hex) ==
    LET env_sid == Strip(PyOr(env, PyS("")).v)
        req_sid == Strip(PyOr(requested, PyS("")).v)
    IN  IF env_sid # "" THEN env_sid
        ELSE IF req_sid # "" THEN req_sid
        ELSE Generated(USER_ID, hex)

\* ----------------------------------------------------- capture_tool_calls
NoHook == [status |-> "none"]
NoResult == [kind |-> "none"]

Dict(sid) == [t |-> "dict", d |-> [k \in {"_log_key"} |-> sid]]

\* (getattr(agent, "context", {}) or {}).get("_log_key", "default")
LogKey(ctx) ==
    IF ctx.t = "dict" /\ "_log_key" \in DOMAIN ctx.d
    THEN ctx.d["_log_key"]
    ELSE DEFAULT_KEY

\* the record of a call that returned
OkEntry(h, r) ==
    [time |-> h.ts, name |-> h.name, args |-> h.args,
     result_preview |-> Slice(Repr(r), PREVIEW_MAX)]

\* the record of a call that raised
ErrEntry(h, e) ==
    [time |-> h.ts, name |-> h.name, args |-> h.args, error |-> e]

\* the live console lines print the session id and the arguments
LivePrintRaises(h) ==
    LOG_TOOL_LIVE /\ (MarkupFails(h.sid) \/ MarkupFails(h.args.q))

\* lines 108-109: resolve the log key, take the timestamp
HookBegin(t, name, q, ts) ==
    /\ pc[t] \in {"in_method", "in_print"}
    /\ ncalls < MaxCalls
    /\ ncalls' = ncalls + 1
    /\ hook' = [hook EXCEPT ![t] =
                  [status |-> "called", sid |-> LogKey(context),
                   ts |-> ts, name |-> name,
                   args |-> [tag |-> <<req[t], session_id[t], ncalls + 1>>, q |-> q],
                   ret |-> pc[t], call |-> None, out |-> None, appends |-> 0]]
    /\ pc' = [pc EXCEPT ![t] = "hook"]
    /\ UNCHANGED <<TOOL_LOGS, context, agentMethods, flags, req, session_id, mi,
                   result, answer, err, nreq, response, stale, harness>>

\* lines 111-128: the callable returns r
HookCallReturns(t, r) ==
    /\ pc[t] = "hook"
    /\ hook[t].status = "called"
    /\ TOOL_LOGS' = _logs_append(TOOL_LOGS, hook[t].sid, OkEntry(hook[t], r))
    /\ IF LivePrintRaises(hook[t])
       THEN /\ hook' = [hook EXCEPT ![t].status = "except",
                                    ![t].call = [kind |-> "return", val |-> r],
                                    ![t].appends = @ + 1]
            /\ err' = [err EXCEPT ![t] = MARKUP_ERROR]
            /\ pc' = pc
       ELSE /\ hook' = [hook EXCEPT ![t].status = "done",
                                    ![t].call = [kind |-> "return", val |-> r],
                                    ![t].out = [kind |-> "return", val |-> r],
                                    ![t].appends = @ + 1]
            /\ err' = err
            /\ pc' = [pc EXCEPT ![t] = hook[t].ret]
    /\ UNCHANGED <<context, agentMethods, flags, req, session_id, mi, result,
                   answer, ncalls, nreq, response, stale, harness>>

\* lines 111, 130-140: the callable raises e
HookCallRaises(t, e) ==
    /\ pc[t] = "hook"
    /\ hook[t].status = "called"
    /\ TOOL_LOGS' = _logs_append(TOOL_LOGS, hook[t].sid, ErrEntry(hook[t], e))
    /\ hook' = [hook EXCEPT ![t].status = "done",
                            ![t].call = [kind |-> "raise", val |-> e],
                            ![t].out = [kind |-> "raise",
                                        val |-> IF LivePrintRaises(hook[t]) \/
                                                   (LOG_TOOL_LIVE /\ MarkupFails(e))
                                                THEN MARKUP_ERROR ELSE e],
                            ![t].appends = @ + 1]
    /\ pc' = [pc EXCEPT ![t] = hook[t].ret]
    /\ UNCHANGED <<context, agentMethods, flags, req, session_id, mi, result,
                   answer, err, ncalls, nreq, response, stale, harness>>

\* lines 130-140 entered from a live console line that raised inside the try
HookExcept(t) ==
    /\ pc[t] = "hook"
    /\ hook[t].status = "except"
    /\ TOOL_LOGS' = _logs_append(TOOL_LOGS, hook[t].sid, ErrEntry(hook[t], err[t]))
    /\ hook' = [hook EXCEPT ![t].status = "done",
                            ![t].out = [kind |-> "raise", val |-> MARKUP_ERROR],
                            ![t].appends = @ + 1]
    /\ err' = [err EXCEPT ![t] = ""]
    /\ pc' = [pc EXCEPT ![t] = hook[t].ret]
    /\ UNCHANGED <<context, agentMethods, flags, req, session_id, mi, result,
                   answer, ncalls, nreq, response, stale, harness>>

\* -------------------------------------------------------------- run_agent
\* run_agent going from line 153 straight into the loop
SetContextOnly(t) ==
    /\ pc[t] = "run_agent"
    /\ context' = Dict(session_id[t])
    /\ pc' = [pc EXCEPT ![t] = "probe"]
    /\ UNCHANGED <<TOOL_LOGS, agentMethods, flags, locals, ncalls, nreq, harness>>

\* line 153: agent.context = {"_log_key": session_id}
SetContext(t) ==
    /\ pc[t] = "run_agent"
    /\ context' = Dict(session_id[t])
    /\ pc' = [pc EXCEPT ![t] = "reset"]
    /\ UNCHANGED <<TOOL_LOGS, agentMethods, flags, locals, ncalls, nreq, harness>>

\* line 154: _logs_reset(session_id)
ResetLog(t) ==
    /\ pc[t] = "reset"
    /\ TOOL_LOGS' = _logs_reset(TOOL_LOGS, session_id[t])
    /\ mi' = [mi EXCEPT ![t] = 1]
    /\ pc' = [pc EXCEPT ![t] = "probe"]
    /\ trace' = [trace EXCEPT ![t].resets = @ + 1]
    /\ UNCHANGED <<context, agentMethods, flags, req, session_id, result, answer,
                   err, hook, ncalls, nreq, response, stale, store, redirect>>

\* lines 156-158: the first candidate from index i on that the agent has and
\* is callable; Len(CANDIDATES) + 1 when the loop runs out
NextCandidate(methods, i) == i

RECURSIVE NextCallable(_, _)
NextCallable(methods, i) ==
    IF i > Len(CANDIDATES) \/ CANDIDATES[i] \in methods
    THEN i
    ELSE NextCallable(methods, i + 1)

\* lines 156-164: advance the loop to that candidate and invoke it, or leave
\* the loop for the fallback
Probe(t) ==
    /\ pc[t] = "probe"
    /\ mi' = [mi EXCEPT ![t] = NextCallable(agentMethods, mi[t])]
    /\ pc' = [pc EXCEPT ![t] =
                 IF NextCallable(agentMethods, mi[t]) > Len(CANDIDATES)
                 THEN "fallback" ELSE "in_method"]
    /\ trace' = IF NextCallable(agentMethods, mi[t]) > Len(CANDIDATES)
                THEN trace
                ELSE [trace EXCEPT ![t].invoked =
                         Append(@, CANDIDATES[NextCallable(agentMethods, mi[t])])]
    /\ UNCHANGED <<TOOL_LOGS, context, agentMethods, flags, req, session_id,
                   result, answer, err, hook, ncalls, nreq, response, stale, store, redirect>>

\* line 164: method(message, session_id=session_id) returns res
MethodReturns(t, res) ==
    /\ pc[t] = "in_method"
    /\ result' = [result EXCEPT ![t] = res]
    /\ hook' = [hook EXCEPT ![t] = NoHook]
    /\ pc' = [pc EXCEPT ![t] = "extract"]
    /\ UNCHANGED <<TOOL_LOGS, context, agentMethods, flags, req, session_id, mi,
                   answer, err, ncalls, nreq, response, stale, harness>>

\* getattr(result, a, None)
Getattr(res, a) == IF a \in DOMAIN res.attrs THEN res.attrs[a] ELSE None

\* line 167: getattr(result, "content", None) or getattr(result, "text", None)
TextOf(res) == PyOr(Getattr(res, "content"), Getattr(res, "text"))

\* lines 165-169: return the text of the result, or go on to the next candidate
Extract(t) ==
    /\ pc[t] = "extract"
    /\ IF result[t].kind = "str"
       THEN /\ answer' = [answer EXCEPT ![t] = result[t].v]
            /\ pc' = [pc EXCEPT ![t] = "returned"]
            /\ mi' = mi
            /\ trace' = [trace EXCEPT ![t].accepted = TRUE, ![t].returns = @ + 1]
       ELSE IF TextOf(result[t]) # None
            THEN /\ answer' = [answer EXCEPT ![t] = PyStr(TextOf(result[t]))]
                 /\ pc' = [pc EXCEPT ![t] = "returned"]
                 /\ mi' = mi
                 /\ trace' = [trace EXCEPT ![t].accepted = TRUE, ![t].returns = @ + 1]
            ELSE /\ answer' = answer
                 /\ pc' = [pc EXCEPT ![t] = "probe"]
                 /\ mi' = [mi EXCEPT ![t] = @ + 1]
                 /\ trace' = trace
    /\ result' = [result EXCEPT ![t] = NoResult]
    /\ UNCHANGED <<TOOL_LOGS, context, agentMethods, flags, req, session_id, err,
                   hook, ncalls, nreq, response, stale, store, redirect>>

\* lines 170-174: the method raises e; the debug line prints e!r
MethodRaises(t, e) ==
    /\ pc[t] = "in_method"
    /\ hook' = [hook EXCEPT ![t] = NoHook]
    /\ IF LOG_DEBUG /\ MarkupFails(e)
       THEN /\ err' = [err EXCEPT ![t] = MARKUP_ERROR]
            /\ pc' = [pc EXCEPT ![t] = "raised"]
            /\ mi' = mi
       ELSE /\ err' = err
            /\ pc' = [pc EXCEPT ![t] = "probe"]
            /\ mi' = [mi EXCEPT ![t] = @ + 1]
    /\ UNCHANGED <<TOOL_LOGS, context, agentMethods, flags, req, session_id,
                   result, answer, ncalls, nreq, response, stale, harness>>

\* the stream the process starts with, and the buffer of line 176 that the
\* run_agent call on thread t creates
ORIGINAL_STDOUT == <<"stdout">>
StringIO(t) == <<"StringIO", t>>
NoTarget == <<>>

\* lines 176-179: redirect_stdout saves sys.stdout and sets it to the buffer;
\* then agent.print_response is called
Fallback(t) ==
    /\ pc[t] = "fallback"
    /\ pc' = [pc EXCEPT ![t] = "in_print"]
    /\ trace' = [trace EXCEPT ![t].invoked = Append(@, "print_response")]
    /\ saved' = [saved EXCEPT ![t] = stdout]
    /\ stdout' = StringIO(t)
    /\ UNCHANGED <<TOOL_LOGS, context, agentMethods, flags, locals, ncalls, nreq, store>>

\* lines 179-182: print_response wrote out; redirect_stdout sets sys.stdout
\* to what it saved; return buf.getvalue().strip()
PrintReturns(t, out) ==
    /\ pc[t] = "in_print"
    /\ answer' = [answer EXCEPT ![t] = Strip(out)]
    /\ hook' = [hook EXCEPT ![t] = NoHook]
    /\ pc' = [pc EXCEPT ![t] = "returned"]
    /\ trace' = [trace EXCEPT ![t].returns = @ + 1]
    /\ stdout' = saved[t]
    /\ saved' = [saved EXCEPT ![t] = NoTarget]
    /\ UNCHANGED <<TOOL_LOGS, context, agentMethods, flags, req, session_id, mi,
                   result, err, ncalls, nreq, response, stale, store>>

\* lines 179-182: print_response raises e, which leaves run_agent
PrintRaises(t, e) ==
    /\ pc[t] = "in_print"
    /\ err' = [err EXCEPT ![t] = e]
    /\ hook' = [hook EXCEPT ![t] = NoHook]
    /\ pc' = [pc EXCEPT ![t] = "raised"]
    /\ stdout' = saved[t]
    /\ saved' = [saved EXCEPT ![t] = NoTarget]
    /\ UNCHANGED <<TOOL_LOGS, context, agentMethods, flags, req, session_id, mi,
                   result, answer, ncalls, nreq, response, stale, store, trace>>

\* ------------------------------------------------------------------- chat
NoResponse == [status |-> 0]

\* line 209: session_id = choose_session_id(AGENT, payload.session_id)
ChatBegin(t, requested, hex) ==
    /\ pc[t] = "idle"
    /\ nreq < MaxReqs
    /\ nreq' = nreq + 1
    /\ req' = [req EXCEPT ![t] = nreq + 1]
    /\ session_id' = [session_id EXCEPT ![t] = choose_session_id(envSid, requested, hex)]
    /\ pc' = [pc EXCEPT ![t] = "run_agent"]
    /\ response' = [response EXCEPT ![t] = NoResponse]
    /\ stale' = [stale EXCEPT ![t] =
                    _logs_get(TOOL_LOGS, choose_session_id(envSid, requested, hex))]
    /\ overlapped' = (overlapped \/ \E u \in Threads : pc[u] # "idle")
    /\ UNCHANGED <<TOOL_LOGS, context, agentMethods, flags, mi, result, answer,
                   err, hook, ncalls, ops, lastOp, expect, touched, objects, trace, redirect, locking>>

\* what the summary prints: the session id, and each call's arguments and error
SummaryPrintRaises(sid, calls) ==
    /\ LOG_TOOL_SUMMARY
    /\ calls # <<>>
    /\ \/ MarkupFails(sid)
       \/ \E i \in 1..Len(calls) :
            \/ MarkupFails(calls[i].args.q)
            \/ "error" \in DOMAIN calls[i] /\ MarkupFails(calls[i].error)

\* lines 185-204, 212: print_tool_summary(session_id)
Summary(t) ==
    /\ pc[t] = "returned"
    /\ IF SummaryPrintRaises(session_id[t], _logs_get(TOOL_LOGS, session_id[t]))
       THEN /\ err' = [err EXCEPT ![t] = MARKUP_ERROR]
            /\ pc' = [pc EXCEPT ![t] = "raised"]
       ELSE /\ err' = err
            /\ pc' = [pc EXCEPT ![t] = "respond"]
    /\ UNCHANGED <<TOOL_LOGS, context, agentMethods, flags, req, session_id, mi,
                   result, answer, hook, ncalls, nreq, response, stale, harness>>


\* chat returns: its frame and locals are gone
Leave(t) ==
    /\ req' = [req EXCEPT ![t] = 0]
    /\ session_id' = [session_id EXCEPT ![t] = ""]
    /\ mi' = [mi EXCEPT ![t] = 1]
    /\ answer' = [answer EXCEPT ![t] = ""]
    /\ err' = [err EXCEPT ![t] = ""]
    /\ stale' = [stale EXCEPT ![t] = <<>>]
    /\ trace' = [trace EXCEPT ![t] = NoTrace]

\* lines 213-219: the 200 response
Respond(t) ==
    /\ pc[t] = "respond"
    /\ response' = [response EXCEPT ![t] =
                       [status |-> 200, session_id |-> session_id[t],
                        answer |-> answer[t],
                        tool_calls |-> _logs_get(TOOL_LOGS, session_id[t])]]
    /\ pc' = [pc EXCEPT ![t] = "idle"]
    /\ Leave(t)
    /\ UNCHANGED <<TOOL_LOGS, context, agentMethods, flags, result, hook, ncalls,
                   nreq, store, redirect>>

\* lines 220-228: the 500 response; line 221 prints e!r first, and when that
\* raises the exception leaves chat and the server answers for it
Fail(t) ==
    /\ pc[t] = "raised"
    /\ response' = [response EXCEPT ![t] =
          IF MarkupFails(err[t])
          THEN [status |-> 500, unhandled |-> TRUE]
          ELSE [status |-> 500, session_id |-> session_id[t], error |-> GENERIC_ERROR]]
    /\ pc' = [pc EXCEPT ![t] = "idle"]
    /\ Leave(t)
    /\ UNCHANGED <<TOOL_LOGS, context, agentMethods, flags, result, hook, ncalls,
                   nreq, store, redirect>>

\* ---------------------------------------------------------- store harness
\* A caller of the three store operations, in any order on any session id.
NoOp == [op |-> "none"]

Did(op, sid, got) ==
    [op |-> op, sid |-> sid, got |-> got, before |-> TOOL_LOGS,
     prev |-> IF lastOp.op = "none"
              THEN <<"none", "", 0>>
              ELSE <<lastOp.op, lastOp.sid, Len(_logs_get(lastOp.before, lastOp.sid))>>]

StoreReset(sid) ==
    /\ ops < MaxOps
    /\ ops' = ops + 1
    /\ TOOL_LOGS' = _logs_reset(TOOL_LOGS, sid)
    /\ lastOp' = Did("reset", sid, <<>>)
    /\ expect' = [expect EXCEPT ![sid] = <<>>]
    /\ touched' = touched \cup {sid}
    /\ UNCHANGED <<context, agentMethods, flags, pc, locals, ncalls, nreq, trace, redirect, locking, overlapped,
                   objects>>

StoreAppend(sid, entry) ==
    /\ ops < MaxOps
    /\ ops' = ops + 1
    /\ TOOL_LOGS' = _logs_append(TOOL_LOGS, sid, entry)
    /\ lastOp' = Did("append", sid, <<>>)
    /\ expect' = [expect EXCEPT ![sid] = Append(@, entry)]
    /\ touched' = touched \cup {sid}
    /\ UNCHANGED <<context, agentMethods, flags, pc, locals, ncalls, nreq, trace, redirect, locking, overlapped,
                   objects>>

StoreGet(sid) ==
    /\ ops < MaxOps
    /\ ops' = ops + 1
    /\ lastOp' = Did("get", sid, _logs_get(TOOL_LOGS, sid))
    /\ UNCHANGED <<TOOL_LOGS, context, agentMethods, flags, pc, locals, ncalls, nreq,
                   expect, touched, overlapped, objects, trace, redirect, locking>>

\* ------------------------------------------- the store as Python objects
\* A list is an object: two names bound to one list see each other's changes.
\* TOOL_LOGS maps a session id to a list object, and a caller of _logs_get
\* keeps the list it was handed and may change it.
NoLists == [r \in {} |-> <<>>]
NoList == [ref |-> 0]

\* TOOL_LOGS.get(session_id, []): the stored list, or a new empty one
DictGet(heap, d, sid, tmp) ==
    IF sid \in DOMAIN d
    THEN [ref |-> d[sid], heap |-> heap]
    ELSE [ref |-> tmp, heap |-> [r \in DOMAIN heap \cup {tmp} |->
                                    IF r = tmp THEN <<>> ELSE heap[r]]]

SameList(heap, src, new) == [ref |-> src, heap |-> heap]

\* list(x): a new list object with the elements of x
list(heap, src, new) ==
    [ref |-> new, heap |-> [r \in DOMAIN heap \cup {new} |->
                               IF r = new THEN heap[src] ELSE heap[r]]]

\* the log as the dict and the heap hold it
StoredLog(sid) == IF sid \in DOMAIN refs THEN lists[refs[sid]] ELSE <<>>

\* line 77: TOOL_LOGS[session_id] = [] binds the key to a new list
ObjReset(sid) ==
    /\ ops < MaxOps
    /\ ops' = ops + 1
    /\ TOOL_LOGS' = _logs_reset(TOOL_LOGS, sid)
    /\ refs' = [k \in DOMAIN refs \cup {sid} |-> IF k = sid THEN 2 * ops + 1 ELSE refs[k]]
    /\ lists' = [r \in DOMAIN lists \cup {2 * ops + 1} |->
                    IF r = 2 * ops + 1 THEN <<>> ELSE lists[r]]
    /\ UNCHANGED <<context, agentMethods, flags, pc, locals, ncalls, nreq, trace, redirect, locking, overlapped,
                   lastOp, expect, touched, held>>

\* line 82: setdefault hands back the stored list, append changes it in place
ObjAppend(sid, entry) ==
    /\ ops < MaxOps
    /\ ops' = ops + 1
    /\ TOOL_LOGS' = _logs_append(TOOL_LOGS, sid, entry)
    /\ LET got == DictGet(lists, refs, sid, 2 * ops + 1)
       IN  /\ refs' = [k \in DOMAIN refs \cup {sid} |-> IF k = sid THEN got.ref ELSE refs[k]]
           /\ lists' = [got.heap EXCEPT ![got.ref] = Append(@, entry)]
    /\ UNCHANGED <<context, agentMethods, flags, pc, locals, ncalls, nreq, trace, redirect, locking, overlapped,
                   lastOp, expect, touched, held>>

\* line 87: the caller binds a name to what _logs_get returns
ObjGet(sid) ==
    /\ ops < MaxOps
    /\ ops' = ops + 1
    /\ LET got == DictGet(lists, refs, sid, 2 * ops + 1)
           copy == list(got.heap, got.ref, 2 * ops + 2)
       IN  /\ lists' = copy.heap
           /\ held' = [ref |-> copy.ref, sid |-> sid, mine |-> copy.heap[copy.ref],
                       changed |-> FALSE]
    /\ UNCHANGED <<TOOL_LOGS, context, agentMethods, flags, pc, locals, ncalls, nreq,
                   trace, redirect, locking, overlapped, lastOp, expect, touched, refs>>

\* the caller appends to the list it holds
CallerAppends(entry) ==
    /\ ops < MaxOps
    /\ ops' = ops + 1
    /\ held # NoList
    /\ lists' = [lists EXCEPT ![held.ref] = Append(@, entry)]
    /\ held' = [held EXCEPT !.mine = Append(@, entry), !.changed = TRUE]
    /\ UNCHANGED <<TOOL_LOGS, context, agentMethods, flags, pc, locals, ncalls, nreq,
                   trace, redirect, locking, overlapped, lastOp, expect, touched, refs>>

\* the caller empties the list it holds
CallerClears ==
    /\ ops < MaxOps
    /\ ops' = ops + 1
    /\ held # NoList
    /\ lists' = [lists EXCEPT ![held.ref] = <<>>]
    /\ held' = [held EXCEPT !.mine = <<>>, !.changed = TRUE]
    /\ UNCHANGED <<TOOL_LOGS, context, agentMethods, flags, pc, locals, ncalls, nreq,
                   trace, redirect, locking, overlapped, lastOp, expect, touched, refs>>

\* ------------------------------------------------ the store and its lock
\* Each operation is "with TOOL_LOGS_LOCK:" around one statement: a thread
\* calls, waits for the lock, takes it, runs the statement, and gives it back.
FREE == "free"
NoCall == [at |-> "out"]

\* the record a call of _logs_append hands over; n tells the calls apart
EntryOf(n) ==
    [time |-> "12:00:00", name |-> "list_tables", args |-> [tag |-> <<0, n>>, q |-> "SELECT 1"],
     result_preview |-> Text("rows", 4)]

\* what the operation makes of the log it finds
Effect(op, log, entry) ==
    CASE op = "reset" -> <<>>
      [] op = "append" -> Append(log, entry)
      [] OTHER -> log

\* thread t calls one of the three operations
Call(t, op, sid) ==
    /\ sop[t] = NoCall
    /\ ops < MaxOps
    /\ ops' = ops + 1
    /\ sop' = [sop EXCEPT ![t] = [at |-> "waiting", op |-> op, sid |-> sid,
                                  entry |-> EntryOf(ops + 1), got |-> <<>>, due |-> <<>>]]
    /\ UNCHANGED <<TOOL_LOGS, context, agentMethods, flags, pc, locals, ncalls, nreq,
                   trace, redirect, overlapped, objects, lastOp, expect, touched,
                   TOOL_LOGS_LOCK>>

WithoutLock(t) ==
    /\ sop[t].at = "waiting"
    /\ TOOL_LOGS_LOCK' = t
    /\ sop' = [sop EXCEPT ![t].at = "inside", ![t].due = expect[sop[t].sid]]
    /\ expect' = [expect EXCEPT ![sop[t].sid] = Effect(sop[t].op, @, sop[t].entry)]
    /\ UNCHANGED <<TOOL_LOGS, context, agentMethods, flags, pc, locals, ncalls, nreq,
                   trace, redirect, overlapped, objects, lastOp, touched, ops>>

\* lines 76, 81, 86: the with statement takes the lock when no thread holds
\* it; the operations take effect in the order they take the lock, which is
\* where expect notes what each is due to see and to leave behind
Acquire(t) ==
    /\ sop[t].at = "waiting"
    /\ TOOL_LOGS_LOCK = FREE
    /\ TOOL_LOGS_LOCK' = t
    /\ sop' = [sop EXCEPT ![t].at = "inside", ![t].due = expect[sop[t].sid]]
    /\ expect' = [expect EXCEPT ![sop[t].sid] = Effect(sop[t].op, @, sop[t].entry)]
    /\ UNCHANGED <<TOOL_LOGS, context, agentMethods, flags, pc, locals, ncalls, nreq,
                   trace, redirect, overlapped, objects, lastOp, touched, ops>>

\* lines 77, 82, 87: the statement inside the with block
Body(t) ==
    /\ sop[t].at = "inside"
    /\ TOOL_LOGS' =
          CASE sop[t].op = "reset" -> _logs_reset(TOOL_LOGS, sop[t].sid)
            [] sop[t].op = "append" -> _logs_append(TOOL_LOGS, sop[t].sid, sop[t].entry)
            [] OTHER -> TOOL_LOGS
    /\ sop' = [sop EXCEPT ![t].at = "leaving",
                          ![t].got = IF sop[t].op = "get"
                                     THEN _logs_get(TOOL_LOGS, sop[t].sid) ELSE <<>>]
    /\ UNCHANGED <<context, agentMethods, flags, pc, locals, ncalls, nreq,
                   trace, redirect, overlapped, objects, lastOp, expect, touched, ops,
                   TOOL_LOGS_LOCK>>

\* the with statement gives the lock back, and the operation returns
Release(t) ==
    /\ sop[t].at = "leaving"
    /\ TOOL_LOGS_LOCK' = FREE
    /\ sop' = [sop EXCEPT ![t] = NoCall]
    /\ UNCHANGED <<TOOL_LOGS, context, agentMethods, flags, pc, locals, ncalls, nreq,
                   trace, redirect, overlapped, objects, lastOp, expect, touched, ops>>

\* a caller of choose_session_id, which notes what it passed and what it got
Choose(requested, hex) ==
    /\ lastOp' = [op |-> "choose", requested |-> requested, hex |-> hex,
                  got |-> choose_session_id(envSid, requested, hex)]
    /\ UNCHANGED <<TOOL_LOGS, context, agentMethods, flags, pc, locals, ncalls, nreq,
                   trace, redirect, locking, overlapped, objects, ops, expect, touched>>

\* ---------------------------------------------------------------- inputs
SIDS == {"s1", "s2"}
HEX == "0a1b2c3d4e5f4a7b8c9d0e1f2a3b4c5d"
UUIDS == {HEX, "ffffffffffff4fffbfffffffffffffff", "000000000000400080000000000000aa"}

\* SESSION_ID in the environment: unset, empty, blank, an id bare and padded
EnvValues == {None, PyS(""), PyS(" "), PyS("e1"), PyS(" e1 ")}

\* payload.session_id: absent, empty, blank, an id bare and padded
Requested ==
    {None, PyS(""), PyS(" "), PyS("s1"), PyS(" s1 "), PyS("\ts2\n"), PyS("e1")}
CleanQuery == "SELECT 1"
MarkupQuery == "SELECT '[/a]'"
Rows == [val |-> "rows", reprLen |-> 40]
ToolError == "BadRequest('syntax')"
Boom == "RuntimeError('boom')"
Usable == [kind |-> "str", v |-> "S"]
Unusable == [kind |-> "obj", attrs |-> [a \in {} |-> None]]

\* result shapes of a response method: a string, or an object with any of
\* content and text absent, None, empty or non-empty
AttrValues == {None, PyS(""), PyS("C"), PyS("T")}
Objects ==
    {[kind |-> "obj", attrs |-> f] :
        f \in UNION {[D -> AttrValues] : D \in SUBSET {"content", "text"}}}
Strings == {[kind |-> "str", v |-> "S"], [kind |-> "str", v |-> ""]}

\* tool results whose repr is shorter than, as long as, and longer than the cut
ToolResults ==
    {[val |-> "rows", reprLen |-> n] : n \in {2, PREVIEW_MAX, PREVIEW_MAX + 1, 5000}}

StoreEntries ==
    {[time |-> "12:00:00", name |-> "list_tables", args |-> [tag |-> <<0, n>>, q |-> CleanQuery],
      result_preview |-> Text("rows", 4)] : n \in 1..2}

\* ------------------------------------------------------------------- Init
InitCommon ==
    /\ TOOL_LOGS = EmptyLogs
    /\ context = None
    /\ pc = [t \in Threads |-> "idle"]
    /\ req = [t \in Threads |-> 0]
    /\ session_id = [t \in Threads |-> ""]
    /\ mi = [t \in Threads |-> 1]
    /\ result = [t \in Threads |-> NoResult]
    /\ answer = [t \in Threads |-> ""]
    /\ err = [t \in Threads |-> ""]
    /\ hook = [t \in Threads |-> NoHook]
    /\ ncalls = 0
    /\ nreq = 0
    /\ response = [t \in Threads |-> NoResponse]
    /\ stale = [t \in Threads |-> <<>>]
    /\ overlapped = FALSE
    /\ ops = 0
    /\ lastOp = NoOp
    /\ expect = [s \in SIDS \cup {DEFAULT_KEY} |-> <<>>]
    /\ touched = {}
    /\ lists = NoLists
    /\ refs = [k \in {} |-> 0]
    /\ held = NoList
    /\ trace = [t \in Threads |-> NoTrace]
    /\ stdout = ORIGINAL_STDOUT
    /\ TOOL_LOGS_LOCK = FREE
    /\ sop = [t \in Threads |-> NoCall]
    /\ saved = [t \in Threads |-> NoTarget]

\* the deployed agent (src/agent.py) offers run; the server runs with the
\* default flags (lines 47-50)
Init ==
    /\ InitCommon
    /\ agentMethods = {"run"}
    /\ LOG_TOOL_LIVE = FALSE
    /\ LOG_DEBUG = FALSE
    /\ LOG_TOOL_SUMMARY = TRUE
    /\ envSid = None

\* the server hands a new request to the first idle worker thread
Free(t) == t = "t1" \/ pc["t1"] # "idle"

\* session ids are interchangeable: the first request names s1
First(s) == nreq > 0 \/ s = "s1"

ChatArrives(t, s) == Free(t) /\ First(s) /\ ChatBegin(t, PyS(s), HEX)

\* the steps of one request on thread t, with the narrow inputs
Serve(t) ==
    \/ \E s \in SIDS : ChatArrives(t, s)
    \/ SetContext(t)
    \/ ResetLog(t)
    \/ Probe(t)
    \/ \E res \in {Usable, Unusable} : MethodReturns(t, res)
    \/ Extract(t)
    \/ MethodRaises(t, Boom)
    \/ Fallback(t)
    \/ PrintReturns(t, " out\n")
    \/ PrintRaises(t, Boom)
    \/ HookBegin(t, "run_sql_query", CleanQuery, "12:00:00")
    \/ HookCallReturns(t, Rows)
    \/ HookCallRaises(t, ToolError)
    \/ Summary(t)
    \/ Respond(t)
    \/ Fail(t)

Next == \E t \in Threads : Serve(t)

Spec == Init /\ [][Next]_vars

\* ------------------------------------------------- two clients, each with
\* a session id of its own, so that no two requests on one session id are
\* ever in flight together
SidOf(t) == IF t = "t1" THEN "s1" ELSE "s2"

NextApart ==
    \E t \in Threads :
        \/ ChatBegin(t, PyS(SidOf(t)), HEX)
        \/ SetContext(t)
        \/ ResetLog(t)
        \/ Probe(t)
        \/ \E res \in {Usable, Unusable} : MethodReturns(t, res)
        \/ Extract(t)
        \/ MethodRaises(t, Boom)
        \/ Fallback(t)
        \/ PrintReturns(t, " out\n")
        \/ PrintRaises(t, Boom)
        \/ HookBegin(t, "run_sql_query", CleanQuery, "12:00:00")
        \/ HookCallReturns(t, Rows)
        \/ HookCallRaises(t, ToolError)
        \/ Summary(t)
        \/ Respond(t)
        \/ Fail(t)

SpecApart == Init /\ [][NextApart]_vars

\* ------------------------------------------------- one request at a time,
\* an agent of any shape: every subset of the candidate methods, every result
\* shape, errors whose text the debug line can and cannot print
MarkupBoom == "ValueError('[/b]')"

InitRun ==
    /\ InitCommon
    /\ agentMethods \in SUBSET {CANDIDATES[i] : i \in 1..Len(CANDIDATES)}
    /\ LOG_TOOL_LIVE = FALSE
    /\ LOG_DEBUG \in BOOLEAN
    /\ LOG_TOOL_SUMMARY = TRUE
    /\ envSid = None

NextRun ==
    \/ ChatBegin("t1", PyS("s1"), HEX)
    \/ SetContext("t1")
    \/ ResetLog("t1")
    \/ Probe("t1")
    \/ \E res \in Strings \cup Objects : MethodReturns("t1", res)
    \/ Extract("t1")
    \/ \E e \in {Boom, MarkupBoom} : MethodRaises("t1", e)
    \/ Fallback("t1")
    \/ PrintReturns("t1", " out\n")
    \/ \E e \in {Boom, MarkupBoom} : PrintRaises("t1", e)
    \/ HookBegin("t1", "run_sql_query", CleanQuery, "12:00:00")
    \/ HookCallReturns("t1", Rows)
    \/ HookCallRaises("t1", ToolError)
    \/ Summary("t1")
    \/ Respond("t1")
    \/ Fail("t1")

SpecRun == InitRun /\ [][NextRun]_vars

\* ------------------------------------------------- one request at a time,
\* tools of any behaviour: results of every length, errors, arguments the
\* console can and cannot print, live logging on and off
ToolNames == {"list_tables", "run_sql_query"}
Times == {"12:00:00", "12:00:01"}

InitHook ==
    /\ InitCommon
    /\ agentMethods = {"run"}
    /\ LOG_TOOL_LIVE \in BOOLEAN
    /\ LOG_DEBUG = FALSE
    /\ LOG_TOOL_SUMMARY \in BOOLEAN
    /\ envSid = None

NextHook ==
    \/ ChatBegin("t1", PyS("s1"), HEX)
    \/ SetContext("t1")
    \/ ResetLog("t1")
    \/ Probe("t1")
    \/ MethodReturns("t1", Usable)
    \/ Extract("t1")
    \/ MethodRaises("t1", Boom)
    \/ Fallback("t1")
    \/ PrintReturns("t1", " out\n")
    \/ PrintRaises("t1", Boom)
    \/ \E name \in ToolNames, q \in {CleanQuery, MarkupQuery}, ts \in Times :
            HookBegin("t1", name, q, ts)
    \/ \E r \in ToolResults : HookCallReturns("t1", r)
    \/ HookCallRaises("t1", ToolError)
    \/ HookExcept("t1")
    \/ Summary("t1")
    \/ Respond("t1")
    \/ Fail("t1")

SpecHook == InitHook /\ [][NextHook]_vars

\* ------------------------------------------------- the store on its own
NextStore ==
    \/ \E s \in SIDS \cup {DEFAULT_KEY} : StoreReset(s)
    \/ \E s \in SIDS \cup {DEFAULT_KEY}, e \in StoreEntries : StoreAppend(s, e)
    \/ \E s \in SIDS \cup {DEFAULT_KEY} : StoreGet(s)

InitStore ==
    /\ InitCommon
    /\ agentMethods = {"run"}
    /\ LOG_TOOL_LIVE = FALSE
    /\ LOG_DEBUG = FALSE
    /\ LOG_TOOL_SUMMARY = TRUE
    /\ envSid = None

SpecStore == InitStore /\ [][NextStore]_vars

\* ------------------------------------ choose_session_id on its own, for
\* every environment and every payload
InitChoose ==
    /\ InitCommon
    /\ agentMethods = {"run"}
    /\ LOG_TOOL_LIVE = FALSE
    /\ LOG_DEBUG = FALSE
    /\ LOG_TOOL_SUMMARY = TRUE
    /\ envSid \in EnvValues

NextChoose == \E r \in Requested, h \in UUIDS : Choose(r, h)

SpecChoose == InitChoose /\ [][NextChoose]_vars

\* ------------------------------------ threads calling the store at once
NextLock ==
    \E t \in Threads :
        \/ \E op \in {"reset", "append", "get"}, s \in SIDS : Call(t, op, s)
        \/ Acquire(t)
        \/ Body(t)
        \/ Release(t)

SpecLock == InitStore /\ [][NextLock]_vars

\* ------------------------------------ the store and a caller that keeps
\* and changes the list it was handed
NextObjects ==
    \/ \E s \in SIDS : ObjReset(s)
    \/ \E s \in SIDS, e \in StoreEntries : ObjAppend(s, e)
    \/ \E s \in SIDS : ObjGet(s)
    \/ \E e \in StoreEntries : CallerAppends(e)
    \/ CallerClears

SpecObjects == InitStore /\ [][NextObjects]_vars

\* ================================================================= claims
In(seq, x) == \E i \in 1..Len(seq) : seq[i] = x

Records == UNION {{TOOL_LOGS[k][i] : i \in 1..Len(TOOL_LOGS[k])} : k \in DOMAIN TOOL_LOGS}

\* C1: a request's response carries no record that was in its session's log
\* when the request began: of two requests with one session id handled one
\* after the other, the second returns none of the first one's records.
C1_SecondCallDropsFirstLog ==
    [][\A t \in Threads :
          (pc[t] = "respond" /\ pc'[t] = "idle") =>
             /\ response'[t].status = 200
             /\ \A i \in 1..Len(response'[t].tool_calls) :
                   ~In(stale[t], response'[t].tool_calls[i])]_vars

\* the second of two requests, handled one after the other on one session id,
\* is about to answer with records of its own, the first one's gone
C1_Witness ==
    /\ ~overlapped
    /\ pc["t1"] = "respond"
    /\ req["t1"] = 2
    /\ stale["t1"] # <<>>
    /\ _logs_get(TOOL_LOGS, session_id["t1"]) # <<>>
    /\ \A i \in 1..Len(stale["t1"]) : stale["t1"][i].args.tag[2] = session_id["t1"]

InFlight(t) == pc[t] # "idle"

\* C2: when the requests in flight have distinct session ids, a tool call is
\* logged under the session id of the request whose agent run made it: the
\* key its hook resolves is the request's own, and so is every record's key.
C2_LoggedUnderOwnSession ==
    (\A t, u \in Threads :
        (t # u /\ InFlight(t) /\ InFlight(u)) => session_id[t] # session_id[u])
    => /\ \A t \in Threads : pc[t] = "hook" => hook[t].sid = session_id[t]
       /\ \A k \in DOMAIN TOOL_LOGS : \A i \in 1..Len(TOOL_LOGS[k]) :
             TOOL_LOGS[k][i].args.tag[2] = k

OneRequestPerLog ==
    \A k \in DOMAIN TOOL_LOGS : \A i, j \in 1..Len(TOOL_LOGS[k]) :
        TOOL_LOGS[k][i].args.tag[1] = TOOL_LOGS[k][j].args.tag[1]

\* C3 as stated: the log under one session id never holds records of two
\* different requests.
C3_LogsNeverInterleave == OneRequestPerLog

\* C3 amended: as long as no two requests have been in flight together, the
\* log under one session id never holds records of two different requests.
C3_SequentialLogsNeverInterleave == ~overlapped => OneRequestPerLog

\* the second of two sequential requests on one session id has logged a call,
\* and the record the first one left is gone
C3_Witness ==
    /\ ~overlapped
    /\ req["t1"] = 2
    /\ stale["t1"] # <<>>
    /\ \E i \in 1..Len(stale["t1"]) : stale["t1"][i].args.tag[1] = 1
    /\ session_id["t1"] \in DOMAIN TOOL_LOGS
    /\ \E i \in 1..Len(TOOL_LOGS[session_id["t1"]]) :
          TOOL_LOGS[session_id["t1"]][i].args.tag[1] = 2

\* C4: the hook is transparent: when it is done it has appended exactly one
\* record and its outcome is the callable's own, value or error.
C4_HookTransparent ==
    \A t \in Threads :
        hook[t].status = "done" =>
            /\ hook[t].appends = 1
            /\ hook[t].out = hook[t].call

\* C5: every record has time, name and args and exactly one of result_preview
\* and error; a preview is at most 800 long; the records of a call that
\* returned have a preview, those of a call that raised have an error.
C5_RecordShape ==
    /\ \A rec \in Records :
          /\ {"time", "name", "args"} \subseteq DOMAIN rec
          /\ ("result_preview" \in DOMAIN rec) # ("error" \in DOMAIN rec)
          /\ "result_preview" \in DOMAIN rec => rec.result_preview.len <= PREVIEW_MAX
    /\ \A t \in Threads :
          hook[t].status = "done" =>
             \A rec \in {r \in Records : r.args.tag = hook[t].args.tag} :
                 IF hook[t].call.kind = "return"
                 THEN "result_preview" \in DOMAIN rec /\ "error" \notin DOMAIN rec
                 ELSE "error" \in DOMAIN rec /\ "result_preview" \notin DOMAIN rec

\* C6: an error raised by a candidate method never leaves run_agent: no step
\* out of a candidate's invocation ends the call with an exception.
C6_CandidateErrorsStayInside ==
    [][\A t \in Threads : pc[t] = "in_method" => pc'[t] # "raised"]_vars

\* the text the claim has run_agent return for a result: content if it is
\* present and not None, else text if it is present and not None
ClaimedText(res) ==
    IF Getattr(res, "content") # None
    THEN Getattr(res, "content")
    ELSE Getattr(res, "text")

\* C7: after a candidate returns, run_agent returns the string itself, else
\* str(content) when content is present and not None, else str(text) when
\* text is; it goes on to the next candidate only when neither is.
C7_ReturnsFirstPresentText ==
    [][\A t \in Threads :
          pc[t] = "extract" =>
             IF result[t].kind = "str"
             THEN pc'[t] = "returned" /\ answer'[t] = result[t].v
             ELSE IF ClaimedText(result[t]) # None
                  THEN pc'[t] = "returned" /\ answer'[t] = PyStr(ClaimedText(result[t]))
                  ELSE pc'[t] = "probe" /\ mi'[t] = mi[t] + 1]_vars

\* C8: get returns exactly the records appended to the session id since its
\* last reset, in the order they were appended.
C8_GetReturnsAppendsInOrder ==
    lastOp.op = "get" => lastOp.got = expect[lastOp.sid]

\* a get that returned two different records in the order of their appends
C8_Witness ==
    /\ lastOp.op = "get"
    /\ Len(lastOp.got) = 2
    /\ lastOp.got[1] # lastOp.got[2]
    /\ lastOp.prev[1] = "append"

\* C9: reset and append on a session id leave the log of every other session
\* id as it was, present or absent; get leaves the whole store as it was.
C9_OtherSessionsUntouched ==
    lastOp.op # "none" =>
        /\ \A k \in (DOMAIN TOOL_LOGS \cup DOMAIN lastOp.before) \ {lastOp.sid} :
              /\ k \in DOMAIN TOOL_LOGS
              /\ k \in DOMAIN lastOp.before
              /\ TOOL_LOGS[k] = lastOp.before[k]
        /\ lastOp.op = "get" => TOOL_LOGS = lastOp.before

\* an append made while another session id holds records
C9_Witness ==
    /\ lastOp.op = "append"
    /\ \E k \in DOMAIN TOOL_LOGS \ {lastOp.sid} : TOOL_LOGS[k] # <<>>

\* C10: a get right after a reset of the same session id returns the empty
\* sequence; a get of a session id never reset or appended to returns the
\* empty sequence and makes no entry for it.
C10_ResetThenGetIsEmpty ==
    lastOp.op = "get" =>
        /\ (lastOp.prev[1] = "reset" /\ lastOp.prev[2] = lastOp.sid) => lastOp.got = <<>>
        /\ lastOp.sid \notin touched =>
              lastOp.got = <<>> /\ lastOp.sid \notin DOMAIN TOOL_LOGS

\* a get right after the reset of a log that held records
C10_Witness ==
    /\ lastOp.op = "get"
    /\ lastOp.prev = <<"reset", lastOp.sid, 2>>

\* C11: _logs_get hands out a snapshot. A list it returned keeps its length
\* and order through every later reset and append on the session id (it shows
\* the caller's own changes and nothing else), and the caller's changes to it
\* never reach the stored log, which is what the store operations made it.
C11_GetReturnsSnapshot ==
    /\ held # NoList => lists[held.ref] = held.mine
    /\ \A s \in SIDS : StoredLog(s) = _logs_get(TOOL_LOGS, s)

\* a caller got a non-empty log and changed its list, and the session was
\* written again afterwards: the two lists now differ
C11_Witness ==
    /\ held # NoList
    /\ held.changed
    /\ held.mine # <<>>
    /\ StoredLog(held.sid) # <<>>
    /\ StoredLog(held.sid) # held.mine
    /\ Len(StoredLog(held.sid)) > Len(held.mine)

\* the records some log holds of the request thread t is serving
Own(t) == {r \in Records : r.args.tag[1] = req[t]}

\* C12: within one chat request the reset of the session's log comes before
\* every append of a tool call that the request's agent execution makes: as
\* long as the request has not reset the log, no log holds a record of the
\* request, so none is appended before the reset and the reset erases none.
C12_ResetBeforeOwnAppends ==
    \A t \in Threads :
        req[t] # 0 /\ trace[t].resets = 0 => Own(t) = {}

\* a request whose session had a log has reset it and logged a tool call since
C12_Witness ==
    \E t \in Threads :
        /\ trace[t].resets = 1
        /\ stale[t] # <<>>
        /\ Own(t) # {}
        /\ \A r \in Own(t) : ~In(stale[t], r)

\* thread t is between entering and leaving the with block of lines 177-179
InCapture(t) == saved[t] # NoTarget

\* C13: the redirection of standard output is always undone: whenever no
\* run_agent call is inside its capture section, sys.stdout is the stream the
\* process started with, however the calls left (return or exception) and
\* however many requests ran the fallback at the same time.
C13_StdoutRestored ==
    (\A t \in Threads : ~InCapture(t)) => stdout = ORIGINAL_STDOUT

\* C14: every chat request ends with one response of a known shape: status
\* 200 with session_id, answer and tool_calls, or status 500 with session_id
\* and the fixed generic message, whatever exception was raised.
C14_ResponseOfKnownShape ==
    \A t \in Threads :
        \/ response[t] = NoResponse
        \/ /\ response[t].status = 200
           /\ DOMAIN response[t] = {"status", "session_id", "answer", "tool_calls"}
        \/ /\ response[t].status = 500
           /\ DOMAIN response[t] = {"status", "session_id", "error"}
           /\ response[t].error = GENERIC_ERROR

\* the place of a candidate method in the loop's order
Place(name) == CHOOSE i \in 1..Len(CANDIDATES) : CANDIDATES[i] = name

\* the methods of the agent a run_agent call has invoked so far are the
\* candidates the agent has, in the loop's order with none passed over and
\* none twice, and then at most print_response
InLoopOrder(inv) ==
    \A j \in 1..Len(inv) :
        IF inv[j] = "print_response"
        THEN /\ j = Len(inv)
             /\ \A k \in 1..Len(CANDIDATES) :
                    CANDIDATES[k] \in agentMethods => \E i \in 1..(j - 1) : inv[i] = CANDIDATES[k]
        ELSE /\ inv[j] \in agentMethods
             /\ \A i \in 1..(j - 1) : Place(inv[i]) < Place(inv[j])
             /\ \A k \in 1..(Place(inv[j]) - 1) :
                    CANDIDATES[k] \in agentMethods => \E i \in 1..(j - 1) : inv[i] = CANDIDATES[k]

Inside(t) == sop[t].at \in {"inside", "leaving"}

\* C16: the three store operations exclude each other and are linearizable:
\* at most one thread is inside an operation, and it is the one holding the
\* lock; the lock is held only by a thread inside an operation, so every
\* operation that has finished has given it back; a get returns what the
\* operations that took the lock before it left behind; and whenever the lock
\* is free every log is the outcome of the operations in the order they took
\* the lock, so concurrent appends to one session id each appear exactly once.
C16_StoreOpsAtomic ==
    /\ \A t, u \in Threads : Inside(t) /\ Inside(u) => t = u
    /\ \A t \in Threads : Inside(t) <=> TOOL_LOGS_LOCK = t
    /\ \A t \in Threads :
          sop[t].at = "leaving" /\ sop[t].op = "get" => sop[t].got = sop[t].due
    /\ TOOL_LOGS_LOCK = FREE =>
          \A s \in SIDS :
             /\ _logs_get(TOOL_LOGS, s) = expect[s]
             /\ \A i, j \in 1..Len(expect[s]) : expect[s][i] = expect[s][j] => i = j

\* two threads append to one session id at once: t2 called first and still
\* waits; t1 took the lock first, has appended its record after an earlier
\* one and is about to give the lock back
C16_Witness ==
    /\ sop["t1"].at = "leaving"
    /\ sop["t2"].at = "waiting"
    /\ sop["t1"].op = "append"
    /\ sop["t2"].op = "append"
    /\ sop["t1"].sid = sop["t2"].sid
    /\ sop["t2"].entry.args.tag[2] < sop["t1"].entry.args.tag[2]
    /\ Len(_logs_get(TOOL_LOGS, sop["t1"].sid)) = 2
    /\ TOOL_LOGS[sop["t1"].sid][2] = sop["t1"].entry

\* C17: a run_agent call resets the session's log once, before it invokes
\* anything, and not again; so when no other request on the same session id
\* runs at the same time, the log read once run_agent has returned holds every
\* record of a tool call made during the call's attempts, in the order the
\* calls were made.
C17_LogHoldsEveryAttempt ==
    \A t \in Threads :
        /\ trace[t].resets <= 1
        /\ trace[t].invoked # <<>> => trace[t].resets = 1
        /\ pc[t] = "returned" =>
              LET log == _logs_get(TOOL_LOGS, session_id[t])
              IN  /\ \A r \in Own(t) : In(log, r)
                  /\ \A i, j \in 1..Len(log) :
                        i < j => log[i].args.tag[3] < log[j].args.tag[3]

\* a value that may be missing, trimmed; missing counts as empty
Trimmed(v) == IF v = None THEN "" ELSE Strip(v.v)

\* the ids choose_session_id can generate: user_id, a hyphen, 8 hex characters
GeneratedIds ==
    {USER_ID \o "-" \o h : h \in {"0a1b2c3d", "ffffffff", "00000000"}}

\* C18: choose_session_id returns the environment's SESSION_ID when that is
\* non-empty after trimming, whatever the caller supplied; otherwise the
\* caller's session id when that is non-empty after trimming; otherwise a
\* generated id, user_id-8hex; and never the empty string.
C18_SessionIdPrecedence ==
    lastOp.op = "choose" =>
        /\ lastOp.got # ""
        /\ Trimmed(envSid) # "" => lastOp.got = Trimmed(envSid)
        /\ Trimmed(envSid) = "" /\ Trimmed(lastOp.requested) # "" =>
              lastOp.got = Trimmed(lastOp.requested)
        /\ Trimmed(envSid) = "" /\ Trimmed(lastOp.requested) = "" =>
              /\ lastOp.got \in GeneratedIds
              /\ Len(lastOp.got) = Len(USER_ID) + 9

\* the environment names a padded id and the caller supplies another: the
\* caller's is ignored and the environment's, trimmed, is chosen
C18_Witness ==
    /\ lastOp.op = "choose"
    /\ envSid = PyS(" e1 ")
    /\ lastOp.requested = PyS(" s1 ")
    /\ lastOp.got = "e1"

\* C19: session logs are never evicted: a session id that has an entry in
\* the store has one in every later state, so over any sequence of
\* operations the set of stored session ids only grows.
C19_SessionIdsOnlyGrow ==
    [][DOMAIN TOOL_LOGS \subseteq DOMAIN TOOL_LOGS']_vars

\* a session id whose log held records has just been reset, and it and
\* another session id are both still in the store
C19_Witness ==
    /\ lastOp.op = "reset"
    /\ _logs_get(lastOp.before, lastOp.sid) # <<>>
    /\ lastOp.sid \in DOMAIN TOOL_LOGS
    /\ DOMAIN TOOL_LOGS # {lastOp.sid}

====
